---- MODULE Spec2Model ----
(***************************************************************************)
(* Model of the delegation lifecycle of AutoPay-AI:                        *)
(*   - DelegationService (src/src/lib/delegation-service.ts),              *)
(*   - the automation store (src/src/lib/automation.ts),                   *)
(*   - the confirm route (src/src/app/api/automations/confirm/route.ts),   *)
(*   - handleConfirmAutomation (src/src/components/ChatBox.tsx).           *)
(* An async function is split at its await points on the outside world     *)
(* (RPC node, wallet, SDK); everything between two awaits is one action.    *)
(***************************************************************************)
EXTENDS Integers, Sequences, FiniteSets, TLC

(* ------------------------------ bounds -------------------------------- *)
\* number of automations the parse route may create in one exploration
MaxAutomations == 1
\* number of distinct values Math.random() may produce for a salt
NumSalts == 1
\* number of automations created through direct calls of the store
MaxStored == 2
\* number of events recorded in the event store
MaxEvents == 2

(* ------------------------- the outside world -------------------------- *)
\* the chains of the wagmi configuration (wagmi-config.ts:24): Ethereum
\* mainnet and Sepolia (supported), Monad testnet (not supported)
ChainIds == {1, 11155111, 10143}

\* delegation-service.ts:27-39
supportedChains == {1, 11155111, 5, 137, 80001, 42161, 421613, 10, 420, 8453, 84531}

\* addresses are strings nothing in the code validates: "" is a missing
\* (falsy) one, "0xA" and "0xB" are well-formed, "garbage" is a non-empty
\* string that is no address
NoAddress == ""
GoodAddresses == {"0xA", "0xB"}
BadAddress == "garbage"
\* what a connected account reports as its address (ChatBox.tsx:26)
AccountAddresses == GoodAddresses \cup {BadAddress}
Addresses == AccountAddresses \cup {NoAddress}

\* wallet handles: none at all, a client without account, a client with one
NoWallet == "none"
WalletHandles == {NoWallet, "noAccount", "withAccount"}
\* useWalletClient(): undefined while connecting, else a client with account
WagmiWalletClients == {NoWallet, "withAccount"}

AutomationTypes == {"recurring_payment", "reward_claim"}
Frequencies == {"weekly"}
Salts == 1..NumSalts

\* Math.random() hex strings used as transaction hash / fallback id
mockTransactionHashes == {"0xtx1"}
fallbackIds == {<<"random", 1>>}

ROOT_AUTHORITY == "0x00"
SimAuthority == "0xff"
\* delegation-service.ts:298, `0x${'0'.repeat(130)}`
PlaceholderSignature == "0x000"
\* what the wallet answers to the two different signature requests
ProbeSignature == "sig(TestDelegation)"
RealSignature == "sig(Delegation)"
NoSignature == "0x"

(* ------------------------------- state -------------------------------- *)
VARIABLES
  pc,             \* position inside setupAutomationDelegation
  caller,         \* who awaits the result: "api" or "chatbox"
  args,           \* [automation, walletClient, userAddress, chainId]
  mainnetCode,    \* whether args.userAddress has bytecode on mainnet
  targetCode,     \* whether args.userAddress has bytecode on args.chainId
  isSCW,          \* local of createSignedDelegation
  lookup,         \* getBytecode of this call: "none", "answered", "failed"
  canSign,        \* local of createSignedDelegation
  emptyDelegation,\* local of createRealDelegation
  signPromise,    \* signDelegation promise: "none", "pending", "resolved", "rejected"
  timer,          \* 30 s timer: "none", "armed", "fired"
  signingResult,  \* result of createSignedDelegation
  result,         \* result of setupAutomationDelegation
  path,           \* which branch produced signingResult
  calls,          \* how often each stage ran in the current call
  lastProbeSig,   \* the wallet's answer to the probe (discarded by the code)
  submitFault,    \* submitDelegation went through its catch block
  environment,    \* what getDeleGatorEnvironment(chainId) gave in this call
  automations,    \* the server's store, automation.ts:82
  nextId,         \* number of automations created so far
  messages,       \* ChatBox: the assistant message of each created automation
  hc,             \* the running handleConfirmAutomation, if any
  request,        \* body of the confirm POST in flight
  response,       \* answer of the confirm POST
  activatedBy,    \* history: the DelegationResult each activation came from
  storeCall,      \* the last direct call of automationStorage and what it returned
  isEnabled,      \* EnvioTracker.isEnabled, envio-tracker.ts:62
  tracked,        \* what the tracking calls of the confirm POST in flight returned
  automationEvents \* the server's event store, automation.ts:83

svcVars == <<pc, caller, args, mainnetCode, targetCode, isSCW, lookup, canSign,
             emptyDelegation, signPromise, timer, signingResult, result,
             path, calls, lastProbeSig, submitFault, environment>>

appVars == <<automations, nextId, messages, hc, request, response, activatedBy,
             storeCall, isEnabled, tracked, automationEvents>>

vars == <<svcVars, appVars>>

NoResult == [none |-> TRUE]
\* JavaScript's null
Null == [null |-> TRUE]
NoStoreCall == [op |-> "none"]
NoTracking == [none |-> TRUE]
NoDelegation == [none |-> TRUE]
\* `{} as Delegation`, delegation-service.ts:324
EmptyObject == [empty |-> TRUE]
ZeroCalls == [bytecode |-> 0, probe |-> 0, sign |-> 0, simulate |-> 0, submit |-> 0]

Has(r, f) == f \in DOMAIN r
IsResult(r) == Has(r, "success")

(* ------------------------ DelegationService --------------------------- *)
\* an open-world chain check: every chain counts as supported
isChainSupported_open(chainId) == TRUE

\* delegation-service.ts:41-43
isChainSupported(chainId) == chainId \in supportedChains

WellFormed(a) == a \in GoodAddresses

\* SDK getDelegationHashOffchain: defined on a delegation whose fields can be
\* ABI-encoded; throws on `{}` and on a delegate/delegator that is no address
HashThrows(d) ==
  \/ ~Has(d, "delegate")
  \/ ~WellFormed(d.delegate)
  \/ ~WellFormed(d.delegator)

getDelegationHashOffchain(d) ==
  <<"hash", d.delegate, d.delegator, d.authority, d.caveats, d.salt>>

\* delegation-service.ts:273-279
getSimulationMessage(scw) ==
  IF scw THEN "Smart Contract Wallet Detected" ELSE "Signing Not Supported"

\* a simulation whose last resort reports the failure instead of a result
createSimulatedDelegation_failing(userAddress, chainId, reason, salt, rnd) ==
  LET mockDelegation == [delegate  |-> userAddress,
                         authority |-> SimAuthority,
                         delegator |-> userAddress,
                         caveats   |-> <<>>,
                         signature |-> PlaceholderSignature,
                         salt      |-> salt]
  IN IF ~HashThrows(mockDelegation)
     THEN [success      |-> TRUE,
           delegationId |-> getDelegationHashOffchain(mockDelegation),
           delegation   |-> mockDelegation,
           chainId      |-> chainId,
           isSimulated  |-> TRUE,
           walletType   |-> IF reason = "smart_contract_wallet" THEN "scw" ELSE "unknown"]
     ELSE [success |-> FALSE,
           error   |-> "Failed to create simulated delegation",
           chainId |-> chainId]

\* a simulation that reports a random identifier with every delegation
createSimulatedDelegation_randomId(userAddress, chainId, reason, salt, rnd) ==
  LET mockDelegation == [delegate  |-> userAddress,
                         authority |-> SimAuthority,
                         delegator |-> userAddress,
                         caveats   |-> <<>>,
                         signature |-> PlaceholderSignature,
                         salt      |-> salt]
  IN IF ~HashThrows(mockDelegation)
     THEN [success      |-> TRUE,
           delegationId |-> rnd,
           delegation   |-> mockDelegation,
           chainId      |-> chainId,
           isSimulated  |-> TRUE,
           walletType   |-> IF reason = "smart_contract_wallet" THEN "scw" ELSE "unknown"]
     ELSE [success      |-> TRUE,
           delegationId |-> rnd,
           delegation   |-> EmptyObject,
           chainId      |-> chainId,
           isSimulated  |-> TRUE,
           walletType   |-> "unknown"]

\* delegation-service.ts:284-330, for a given value of Math.random()
createSimulatedDelegation(userAddress, chainId, reason, salt, rnd) ==
  LET mockDelegation == [delegate  |-> userAddress,
                         authority |-> SimAuthority,
                         delegator |-> userAddress,
                         caveats   |-> <<>>,
                         signature |-> PlaceholderSignature,
                         salt      |-> salt]
  IN IF ~HashThrows(mockDelegation)
     THEN [success      |-> TRUE,
           delegationId |-> getDelegationHashOffchain(mockDelegation),
           delegation   |-> mockDelegation,
           chainId      |-> chainId,
           isSimulated  |-> TRUE,
           walletType   |-> IF reason = "smart_contract_wallet" THEN "scw" ELSE "unknown"]
     ELSE [success      |-> TRUE,
           delegationId |-> rnd,
           delegation   |-> EmptyObject,
           chainId      |-> chainId,
           isSimulated  |-> TRUE,
           walletType   |-> "unknown"]

\* `{...simulated, userMessage: m}`
WithMessage(r, m) == [userMessage |-> m] @@ r

\* a submission that reports no transaction reference
submitDelegation_noTransaction(signedDelegation, chainId, txHash) ==
  IF HashThrows(signedDelegation)
  THEN [success |-> FALSE,
        error   |-> "Delegation submission failed",
        chainId |-> chainId]
  ELSE [success      |-> TRUE,
        delegationId |-> getDelegationHashOffchain(signedDelegation),
        delegation   |-> signedDelegation,
        chainId      |-> chainId,
        isSimulated  |-> ~isChainSupported(chainId)]

\* delegation-service.ts:335-372, for a given value of Math.random()
submitDelegation(signedDelegation, chainId, txHash) ==
  IF HashThrows(signedDelegation)
  THEN [success |-> FALSE,
        error   |-> "Delegation submission failed",
        chainId |-> chainId]
  ELSE [success         |-> TRUE,
        transactionHash |-> txHash,
        delegationId    |-> getDelegationHashOffchain(signedDelegation),
        delegation      |-> signedDelegation,
        chainId         |-> chainId,
        isSimulated     |-> ~isChainSupported(chainId)]


(* --------------- setupAutomationDelegation, step by step -------------- *)
NoArgs == [automation |-> [id |-> 0], walletClient |-> NoWallet,
           userAddress |-> NoAddress, chainId |-> 1]

\* no call of the service is running
ForgetCall ==
  /\ pc' = "idle"
  /\ caller' = "api"
  /\ args' = NoArgs
  /\ mainnetCode' = FALSE
  /\ targetCode' = FALSE
  /\ isSCW' = FALSE
  /\ lookup' = "none"
  /\ canSign' = FALSE
  /\ emptyDelegation' = NoDelegation
  /\ signPromise' = "none"
  /\ timer' = "none"
  /\ signingResult' = NoResult
  /\ result' = NoResult
  /\ path' = "none"
  /\ calls' = ZeroCalls
  /\ lastProbeSig' = NoSignature
  /\ submitFault' = FALSE
  /\ environment' = "unknown"

\* the signing stage is over: record its result and go on in
\* setupAutomationDelegation (delegation-service.ts:394)
SigningDone(r, how) ==
  /\ signingResult' = r
  /\ path' = how
  /\ pc' = "signed"

\* createSimulatedDelegation followed by `{...simulated, userMessage}`
Simulate(reason, message, how) ==
  \E salt \in Salts, rnd \in fallbackIds :
    /\ SigningDone(WithMessage(createSimulatedDelegation(args.userAddress,
                                 args.chainId, reason, salt, rnd), message), how)
    /\ calls' = [calls EXCEPT !.simulate = @ + 1]

\* a catch block that reports the signing failure to the caller
CatchSigningFailure_propagating ==
  /\ SigningDone([success |-> FALSE, error |-> "Delegation signing failed",
                  chainId |-> args.chainId], "error_fallback")
  /\ UNCHANGED calls

\* the catch block of createSignedDelegation, delegation-service.ts:167-177
CatchSigningFailure ==
  Simulate("error_fallback", "An unexpected error occurred. Using simulation mode.", "error_fallback")

\* a caller invokes setupAutomationDelegation(automation, walletClient,
\* userAddress, chainId); the chain state of userAddress is the world's
BeginSetup(who, automation, walletClient, userAddress, chainId) ==
  /\ pc = "idle"
  /\ pc' = "validate"
  /\ caller' = who
  /\ args' = [automation |-> automation, walletClient |-> walletClient,
              userAddress |-> userAddress, chainId |-> chainId]
  /\ \E m \in BOOLEAN, t \in BOOLEAN :
       /\ WellFormed(userAddress) \/ (~m /\ ~t)
       /\ (chainId = 1) => (m = t)
       /\ mainnetCode' = m
       /\ targetCode' = t
  /\ isSCW' = FALSE
  /\ lookup' = "none"
  /\ canSign' = FALSE
  /\ emptyDelegation' = NoDelegation
  /\ signPromise' = "none"
  /\ timer' = "none"
  /\ signingResult' = NoResult
  /\ result' = NoResult
  /\ path' = "none"
  /\ calls' = ZeroCalls
  /\ lastProbeSig' = NoSignature
  /\ submitFault' = FALSE
  /\ environment' = "unknown"

\* a validation that forgets the wallet handle
InputsMissing_addressOnly(userAddress, walletClient) ==
  userAddress = NoAddress

\* `!userAddress || !walletClient`, delegation-service.ts:385
InputsMissing(userAddress, walletClient) ==
  userAddress = NoAddress \/ walletClient = NoWallet

\* delegation-service.ts:383-387 and 423-430
ValidateInputs ==
  /\ pc = "validate"
  /\ IF InputsMissing(args.userAddress, args.walletClient)
     THEN /\ result' = [success |-> FALSE,
                        error   |-> "User address or wallet client is missing",
                        chainId |-> args.chainId]
          /\ pc' = "done"
     ELSE /\ pc' = "chainCheck"
          /\ UNCHANGED result
  /\ UNCHANGED <<caller, args, mainnetCode, targetCode, isSCW, lookup, canSign,
                 emptyDelegation, signPromise, timer, signingResult, path,
                 calls, lastProbeSig, submitFault, environment>>

\* delegation-service.ts:129-141
CheckChain ==
  /\ pc = "chainCheck"
  /\ IF ~isChainSupported(args.chainId)
     THEN Simulate("unsupported_chain", getSimulationMessage(FALSE), "unsupported_chain")
     ELSE /\ pc' = "bytecode"
          /\ UNCHANGED <<signingResult, path, calls>>
  /\ UNCHANGED <<caller, args, mainnetCode, targetCode, isSCW, lookup, canSign,
                 emptyDelegation, signPromise, timer, result, lastProbeSig,
                 submitFault, environment>>

\* the chain whose bytecode isSmartContractWallet reads, whatever chainId it
\* is given (delegation-service.ts:53-56)
BytecodeChain(chainId) == 1

CodeOn(chain) == IF chain = 1 THEN mainnetCode ELSE targetCode

\* a lookup whose failure classifies the wallet as smart-contract
CheckBytecode_failingClosed ==
  /\ pc = "bytecode"
  /\ \E rpcFails \in BOOLEAN :
       /\ ~WellFormed(args.userAddress) => rpcFails
       /\ isSCW' = IF rpcFails THEN TRUE
                   ELSE CodeOn(BytecodeChain(args.chainId))
       /\ lookup' = IF rpcFails THEN "failed" ELSE "answered"
  /\ calls' = [calls EXCEPT !.bytecode = @ + 1]
  /\ pc' = "probe"
  /\ UNCHANGED <<caller, args, mainnetCode, targetCode, canSign,
                 emptyDelegation, signPromise, timer, signingResult, result,
                 path, lastProbeSig, submitFault, environment>>

\* isSmartContractWallet, delegation-service.ts:48-69 (called at line 144);
\* the lookup throws for a malformed address and may fail for any address
CheckBytecode ==
  /\ pc = "bytecode"
  /\ \E rpcFails \in BOOLEAN :
       /\ ~WellFormed(args.userAddress) => rpcFails
       /\ isSCW' = IF rpcFails THEN FALSE
                   ELSE CodeOn(BytecodeChain(args.chainId))
       /\ lookup' = IF rpcFails THEN "failed" ELSE "answered"
  /\ calls' = [calls EXCEPT !.bytecode = @ + 1]
  /\ pc' = "probe"
  /\ UNCHANGED <<caller, args, mainnetCode, targetCode, canSign,
                 emptyDelegation, signPromise, timer, signingResult, result,
                 path, lastProbeSig, submitFault, environment>>

\* a signer that goes on to the real signature whatever the probe said
AfterProbe_ignoringProbe(can) ==
  IF isSCW
  THEN Simulate("smart_contract_wallet", getSimulationMessage(isSCW),
                "smart_contract_wallet")
  ELSE /\ pc' = "real"
       /\ UNCHANGED <<signingResult, path, calls>>

\* createSignedDelegation lines 147-161, once isSCW and canSign are known
AfterProbe(can) ==
  IF isSCW \/ ~can
  THEN Simulate(IF isSCW THEN "smart_contract_wallet" ELSE "signing_unsupported",
                getSimulationMessage(isSCW),
                IF isSCW THEN "smart_contract_wallet" ELSE "signing_unsupported")
  ELSE /\ pc' = "real"
       /\ UNCHANGED <<signingResult, path, calls>>

\* canSignDelegations up to its await, delegation-service.ts:74-107
StartProbe ==
  /\ pc = "probe"
  /\ IF args.walletClient # "withAccount"
     THEN /\ canSign' = FALSE
          /\ AfterProbe(FALSE)
     ELSE /\ pc' = "probeWait"
          /\ calls' = [calls EXCEPT !.probe = @ + 1]
          /\ UNCHANGED <<canSign, signingResult, path>>
  /\ UNCHANGED <<caller, args, mainnetCode, targetCode, isSCW, lookup,
                 emptyDelegation, signPromise, timer, result, lastProbeSig,
                 submitFault, environment>>

\* the wallet answers the probe: signTypedData resolves (lines 109-110)
ProbeResolves ==
  /\ pc = "probeWait"
  /\ canSign' = TRUE
  /\ lastProbeSig' = ProbeSignature
  /\ AfterProbe(TRUE)
  /\ UNCHANGED <<caller, args, mainnetCode, targetCode, isSCW, lookup,
                 emptyDelegation, signPromise, timer, result, submitFault, environment>>

\* the wallet refuses the probe: signTypedData rejects (lines 112-117)
ProbeRejects ==
  /\ pc = "probeWait"
  /\ canSign' = FALSE
  /\ AfterProbe(FALSE)
  /\ UNCHANGED <<caller, args, mainnetCode, targetCode, isSCW, lookup,
                 emptyDelegation, signPromise, timer, result, lastProbeSig,
                 submitFault, environment>>

\* SDK createDelegation({to, from, parentDelegation, caveats}) followed by
\* the salt assignment, delegation-service.ts:202-209
createDelegation(to, from, parentDelegation, caveats, salt) ==
  [delegate  |-> to,
   delegator |-> from,
   authority |-> parentDelegation,
   caveats   |-> caveats,
   salt      |-> salt,
   signature |-> NoSignature]

\* the SDK's createDelegation is not part of the repository: the check at
\* line 212 provides for a result that lacks its delegate or its authority
SdkResults == {"complete", "noDelegate", "noAuthority"}

Returned_by_SDK(d, sdk) ==
  IF sdk = "noDelegate" THEN [d EXCEPT !.delegate = NoAddress]
  ELSE IF sdk = "noAuthority" THEN [d EXCEPT !.authority = ""]
  ELSE d

\* the caveats createRealDelegation gives the delegation, line 206
RealCaveats(automation) == <<>>

\* createRealDelegation up to its await, delegation-service.ts:189-247;
\* env is what the SDK's getDeleGatorEnvironment does for the chain
StartRealDelegation ==
  /\ pc = "real"
  /\ \E env \in {"manager", "none", "throws"}, salt \in Salts, sdk \in SdkResults :
       LET d == Returned_by_SDK(createDelegation(args.userAddress, args.userAddress,
                                  ROOT_AUTHORITY, RealCaveats(args.automation), salt),
                                sdk)
       IN /\ environment' = env
          /\ IF env = "throws"
             THEN /\ CatchSigningFailure
                  /\ UNCHANGED <<emptyDelegation, signPromise, timer>>
             ELSE IF env = "none"
             THEN /\ Simulate("no_delegation_manager",
                              "Network not configured for delegations. Using simulation mode.",
                              "no_delegation_manager")
                  /\ UNCHANGED <<emptyDelegation, signPromise, timer>>
             ELSE IF d.delegate = NoAddress \/ d.authority = ""
             THEN /\ Simulate("invalid_delegation",
                              "Invalid delegation structure. Using simulation mode.",
                              "invalid_delegation")
                  /\ emptyDelegation' = d
                  /\ UNCHANGED <<signPromise, timer>>
             ELSE IF args.walletClient # "withAccount"
             THEN /\ CatchSigningFailure
                  /\ emptyDelegation' = d
                  /\ UNCHANGED <<signPromise, timer>>
             ELSE /\ emptyDelegation' = d
                  /\ timer' = "armed"
                  /\ signPromise' = "pending"
                  /\ calls' = [calls EXCEPT !.sign = @ + 1]
                  /\ pc' = "signWait"
                  /\ UNCHANGED <<signingResult, path>>
  /\ UNCHANGED <<caller, args, mainnetCode, targetCode, isSCW, lookup, canSign,
                 result, lastProbeSig, submitFault>>

\* a signer that keeps the signature of the capability probe
SignatureUsed_probe(realSig, probeSig) == probeSig

\* the signature a finished signDelegation puts into the delegation, line 253
SignatureUsed(realSig, probeSig) == realSig

\* delegation-service.ts:249-267
RealResult(signedDelegation, chainId) ==
  [success      |-> TRUE,
   delegationId |-> getDelegationHashOffchain(signedDelegation),
   delegation   |-> signedDelegation,
   chainId      |-> chainId,
   isSimulated  |-> FALSE,
   walletType   |-> "eoa",
   userMessage  |-> "Real delegation created successfully!"]

\* signDelegation resolves before the timer: Promise.race yields the
\* signature (lines 237-267); the SDK cannot sign for a malformed address
SignResolves ==
  /\ pc = "signWait"
  /\ signPromise = "pending"
  /\ WellFormed(args.userAddress)
  /\ signPromise' = "resolved"
  /\ LET signedDelegation ==
           [emptyDelegation EXCEPT !.signature = SignatureUsed(RealSignature, lastProbeSig)]
     IN IF HashThrows(signedDelegation)
        THEN CatchSigningFailure
        ELSE /\ SigningDone(RealResult(signedDelegation, args.chainId), "real")
             /\ UNCHANGED calls
  /\ UNCHANGED <<caller, args, mainnetCode, targetCode, isSCW, lookup, canSign,
                 emptyDelegation, timer, result, lastProbeSig, submitFault,
                 environment>>

\* a signer that asks the wallet once more after a rejection
SignRejects_retrying ==
  /\ pc = "signWait"
  /\ signPromise = "pending"
  /\ IF calls.sign < 2
     THEN /\ signPromise' = "pending"
          /\ calls' = [calls EXCEPT !.sign = @ + 1]
          /\ UNCHANGED <<pc, signingResult, path>>
     ELSE /\ signPromise' = "rejected"
          /\ CatchSigningFailure
  /\ UNCHANGED <<caller, args, mainnetCode, targetCode, isSCW, lookup, canSign,
                 emptyDelegation, timer, result, lastProbeSig, submitFault,
                 environment>>

\* signDelegation rejects before the timer: Promise.race throws into the
\* catch block of createSignedDelegation
SignRejects ==
  /\ pc = "signWait"
  /\ signPromise = "pending"
  /\ signPromise' = "rejected"
  /\ CatchSigningFailure
  /\ UNCHANGED <<caller, args, mainnetCode, targetCode, isSCW, lookup, canSign,
                 emptyDelegation, timer, result, lastProbeSig, submitFault,
                 environment>>

\* the 30 s timer fires first (line 234): Promise.race throws
SigningTimesOut ==
  /\ pc = "signWait"
  /\ timer = "armed"
  /\ timer' = "fired"
  /\ CatchSigningFailure
  /\ UNCHANGED <<caller, args, mainnetCode, targetCode, isSCW, lookup, canSign,
                 emptyDelegation, signPromise, result, lastProbeSig,
                 submitFault, environment>>

\* the loser of the race settles later; the timer is never cleared
LateTimer ==
  /\ pc # "signWait"
  /\ timer = "armed"
  /\ timer' = "fired"
  /\ UNCHANGED <<pc, caller, args, mainnetCode, targetCode, isSCW, lookup, canSign,
                 emptyDelegation, signPromise, signingResult, result, path,
                 calls, lastProbeSig, submitFault, environment>>

\* a late signature that replaces the result of the race
LateSignature_adopted ==
  /\ pc # "signWait"
  /\ signPromise = "pending"
  /\ signPromise' = "resolved"
  /\ signingResult' = RealResult([emptyDelegation EXCEPT !.signature = RealSignature],
                                 args.chainId)
  /\ path' = "real"
  /\ UNCHANGED <<pc, caller, args, mainnetCode, targetCode, isSCW, lookup, canSign,
                 emptyDelegation, timer, result,
                 calls, lastProbeSig, submitFault, environment>>

\* the signature settles after the timeout has decided the race; nothing
\* awaits it any more
LateSignature ==
  /\ pc # "signWait"
  /\ signPromise = "pending"
  /\ \E s \in {"resolved", "rejected"} : signPromise' = s
  /\ UNCHANGED <<pc, caller, args, mainnetCode, targetCode, isSCW, lookup, canSign,
                 emptyDelegation, timer, signingResult, result, path,
                 calls, lastProbeSig, submitFault, environment>>

\* an orchestrator that submits a second time when the submission failed
AfterSigning_resubmitting ==
  /\ pc = "signed"
  /\ IF ~signingResult.success
     THEN /\ result' = signingResult
          /\ UNCHANGED <<calls, submitFault>>
     ELSE IF ~Has(signingResult, "delegation")
     THEN /\ result' = [success |-> FALSE, error |-> "No delegation created",
                        chainId |-> args.chainId]
          /\ UNCHANGED <<calls, submitFault>>
     ELSE /\ \E tx \in mockTransactionHashes :
               result' = submitDelegation(signingResult.delegation, args.chainId, tx)
          /\ calls' = [calls EXCEPT !.submit =
                         @ + (IF HashThrows(signingResult.delegation) THEN 2 ELSE 1)]
          /\ submitFault' = HashThrows(signingResult.delegation)
  /\ pc' = "done"
  /\ UNCHANGED <<caller, args, mainnetCode, targetCode, isSCW, lookup, canSign,
                 emptyDelegation, signPromise, timer, signingResult, path,
                 lastProbeSig, environment>>

\* setupAutomationDelegation after the signing stage, lines 396-422
AfterSigning ==
  /\ pc = "signed"
  /\ IF ~signingResult.success
     THEN /\ result' = signingResult
          /\ UNCHANGED <<calls, submitFault>>
     ELSE IF ~Has(signingResult, "delegation")
     THEN /\ result' = [success |-> FALSE, error |-> "No delegation created",
                        chainId |-> args.chainId]
          /\ UNCHANGED <<calls, submitFault>>
     ELSE /\ \E tx \in mockTransactionHashes :
               result' = submitDelegation(signingResult.delegation, args.chainId, tx)
          /\ calls' = [calls EXCEPT !.submit = @ + 1]
          /\ submitFault' = HashThrows(signingResult.delegation)
  /\ pc' = "done"
  /\ UNCHANGED <<caller, args, mainnetCode, targetCode, isSCW, lookup, canSign,
                 emptyDelegation, signPromise, timer, signingResult, path,
                 lastProbeSig, environment>>

(* --------------------------- automation store ------------------------- *)
\* automationStorage.create, automation.ts:87-96
StorageCreate(store, automation, id) == Append(store, [id |-> id] @@ automation)

\* automationStorage.getByUser, automation.ts:99-103
getByUser(store, userAddress) ==
  SelectSeq(store, LAMBDA auto : auto.userAddress = userAddress)

\* Array.prototype.findIndex on the id, 0 when there is none
FindById(store, id) ==
  IF \E i \in 1..Len(store) : store[i].id = id
  THEN CHOOSE i \in 1..Len(store) :
         /\ store[i].id = id
         /\ \A j \in 1..(i - 1) : store[j].id # id
  ELSE 0

\* an update that creates the automation it does not find
StorageUpdate_upsert(store, id, updates) ==
  LET i == FindById(store, id)
  IN IF i = 0 THEN Append(store, [id |-> id] @@ updates)
     ELSE [store EXCEPT ![i] = updates @@ @]

\* automationStorage.update, automation.ts:124-133 (Object.assign)
StorageUpdate(store, id, updates) ==
  LET i == FindById(store, id)
  IN IF i = 0 THEN store ELSE [store EXCEPT ![i] = updates @@ @]

\* what update and updateStatus return (automation.ts:118-120, 130-132):
\* the automation as it is after the call, null when the id is not found
UpdateReturns(store, after, id) ==
  LET i == FindById(store, id)
  IN IF i = 0 THEN Null ELSE after[i]

\* automationStorage.updateStatus, automation.ts:112-121
StorageUpdateStatus(store, id, status) ==
  LET i == FindById(store, id)
  IN IF i = 0 THEN store ELSE [store EXCEPT ![i].status = status]

\* a lookup for deletion that does not look at the owner
DeleteIndex_anyOwner(store, id, userAddress) ==
  IF \E i \in 1..Len(store) : store[i].id = id
  THEN CHOOSE i \in 1..Len(store) :
         /\ store[i].id = id
         /\ \A j \in 1..(i - 1) : store[j].id # id
  ELSE 0

\* automation.ts:137, findIndex on id and owner, 0 when there is none
DeleteIndex(store, id, userAddress) ==
  IF \E i \in 1..Len(store) : store[i].id = id /\ store[i].userAddress = userAddress
  THEN CHOOSE i \in 1..Len(store) :
         /\ store[i].id = id /\ store[i].userAddress = userAddress
         /\ \A j \in 1..(i - 1) : ~(store[j].id = id /\ store[j].userAddress = userAddress)
  ELSE 0

\* Array.prototype.splice(index, 1)
Splice(store, i) == SubSeq(store, 1, i - 1) \o SubSeq(store, i + 1, Len(store))

\* automationStorage.delete, automation.ts:136-145
StorageDelete(store, id, userAddress) ==
  LET i == DeleteIndex(store, id, userAddress)
  IN IF i = 0 THEN store ELSE Splice(store, i)

(* ------------------- POST /api/ai/parse (creation) -------------------- *)
\* parse/route.ts:22-28: the parsed command becomes a pending automation of
\* the requesting user; ChatBox.handleSend shows it with a confirm button
\* (ChatBox.tsx:88-96)
CreateAutomation ==
  /\ nextId < MaxAutomations
  /\ \E user \in AccountAddresses, type \in AutomationTypes, freq \in Frequencies :
       LET id == nextId + 1
           automation == [type |-> type, status |-> "pending",
                          params |-> [frequency |-> freq, recipient |-> "0xB",
                                      amount |-> "0.1"],
                          userAddress |-> user]
       IN /\ automations' = StorageCreate(automations, automation, id)
          /\ nextId' = id
          /\ messages' = [m \in DOMAIN messages \cup {id} |->
                            IF m = id
                            THEN [pending |-> FALSE, requiresConfirmation |-> TRUE,
                                  status |-> "pending", automation |-> [id |-> id] @@ automation]
                            ELSE messages[m]]
  /\ UNCHANGED <<svcVars, hc, request, response, activatedBy, storeCall,
                 isEnabled, tracked, automationEvents>>

(* ------------------ POST /api/automations/confirm --------------------- *)
\* confirm/route.ts:12, the 400 answer
MissingFields(req) ==
  \/ ~Has(req, "automationId")
  \/ ~Has(req, "userAddress")
  \/ ~Has(req, "signedDelegation")

\* a Date, as the time of the confirmation plus a number of days and months
Later(days, months) == [days |-> days, months |-> months]

\* confirm/route.ts:111-129
calculateNextExecution(frequency) ==
  CASE frequency = "daily"   -> Later(1, 0)
    [] frequency = "weekly"  -> Later(7, 0)
    [] frequency = "monthly" -> Later(0, 1)
    [] OTHER                 -> Later(7, 0)

\* `automation.params?.frequency || 'weekly'`, confirm/route.ts:29
Frequency(automation) ==
  IF Has(automation, "params") /\ Has(automation.params, "frequency")
  THEN automation.params.frequency
  ELSE "weekly"

\* confirm/route.ts:32-41: the fields written into the automation; a key
\* whose value is undefined is left out
ConfirmUpdates(req, automation) ==
  LET sd == req.signedDelegation
      opt(r, f, k) == IF Has(r, f) THEN [x \in {k} |-> r[f]] ELSE <<>>
  IN [status |-> "active", delegationData |-> sd,
      nextExecution |-> calculateNextExecution(Frequency(automation))]
     @@ opt(sd, "delegationId", "delegationId")
     @@ opt(req, "transactionHash", "transactionHash")
     @@ opt(req, "chainId", "chainId")
     @@ opt(req, "isSimulated", "isSimulated")

\* a tracker whose failure reaches its caller
trackAutomation_throwing(enabled, fault) ==
  IF ~enabled THEN [returned |-> FALSE]
  ELSE IF fault THEN [thrown |-> TRUE]
  ELSE [returned |-> TRUE]

\* EnvioTracker.trackAutomation, envio-tracker.ts:474-502: `fault` is an
\* exception inside its try block
trackAutomation(enabled, fault) ==
  IF ~enabled THEN [returned |-> FALSE]
  ELSE IF fault THEN [returned |-> FALSE]
  ELSE [returned |-> TRUE]

\* a transaction tracker whose failure reaches its caller
trackTransaction_throwing(enabled, fault) ==
  IF ~enabled THEN [returned |-> FALSE]
  ELSE IF fault THEN [thrown |-> TRUE]
  ELSE [returned |-> TRUE]

\* EnvioTracker.trackTransaction, envio-tracker.ts:504-537
trackTransaction(enabled, fault) ==
  IF ~enabled THEN [returned |-> FALSE]
  ELSE IF fault THEN [returned |-> FALSE]
  ELSE [returned |-> TRUE]

Skipped == [skipped |-> TRUE]
Threw(t) == Has(t, "thrown")

\* confirm/route.ts:8-109
ConfirmPOST ==
  /\ request # NoResult
  /\ response = NoResult
  /\ IF MissingFields(request)
     THEN /\ response' = [status |-> 400]
          /\ UNCHANGED <<automations, activatedBy, tracked>>
     ELSE LET mine == getByUser(automations, request.userAddress)
              found == mine[FindById(mine, request.automationId)]
              after == StorageUpdate(automations, request.automationId,
                                     ConfirmUpdates(request, found))
          IN IF FindById(mine, request.automationId) = 0
             THEN /\ response' = [status |-> 404]
                  /\ UNCHANGED <<automations, activatedBy, tracked>>
             ELSE IF UpdateReturns(automations, after, request.automationId) = Null
             THEN /\ response' = [status |-> 500]
                  /\ UNCHANGED <<automations, activatedBy, tracked>>
             ELSE \E fault1, fault2 \in BOOLEAN :
                    LET t1 == trackAutomation(isEnabled, fault1)
                        t2 == IF Threw(t1) \/ ~Has(request, "transactionHash")
                              THEN Skipped
                              ELSE trackTransaction(isEnabled, fault2)
                    IN /\ automations' = after
                       /\ activatedBy' =
                            [i \in DOMAIN activatedBy \cup {request.automationId} |->
                               IF i = request.automationId
                               THEN (IF Has(hc, "delegationResult")
                                     THEN hc.delegationResult ELSE NoResult)
                               ELSE activatedBy[i]]
                       /\ tracked' = [automation |-> t1, transaction |-> t2]
                       /\ response' = IF Threw(t1) \/ Threw(t2)
                                      THEN [status |-> 500]
                                      ELSE [status |-> 200, success |-> TRUE]
  /\ UNCHANGED <<svcVars, nextId, messages, hc, request, storeCall, isEnabled, automationEvents>>

\* confirm/route.ts:179-213, the status query
StatusGET(store, automationId, userAddress) ==
  LET mine == getByUser(store, userAddress)
      i    == FindById(mine, automationId)
  IN IF i = 0
     THEN [status |-> 404]
     ELSE [status        |-> 200,
           automation    |-> mine[i],
           isConfirmed   |-> mine[i].status = "active",
           onChainActive |-> Has(mine[i], "delegationId")]

(* --------------------- ChatBox.handleConfirmAutomation ---------------- *)
IdleConfirm == [pc |-> "idle"]

\* a state update that is lost
SetMessage_lost(id, m) == messages

\* setMessages(prev => prev.map(...)) on the message of one automation
SetMessage(id, m) == [messages EXCEPT ![id] = m @@ @]

\* the condition under which the confirm button of a message is rendered,
\* ChatBox.tsx:408
ConfirmButton(message) == message.requiresConfirmation /\ ~message.pending

\* the catch block, ChatBox.tsx:266-295
ConfirmFailed(id, msgs) ==
  [msgs EXCEPT ![id] = [pending |-> FALSE, status |-> "pending"] @@ @]

\* the user presses the confirm button of a message (ChatBox.tsx:408-418);
\* the handler runs up to its first await (lines 115-175) with the wallet
\* state of the render it was created in
StartConfirm ==
  /\ hc.pc = "idle"
  /\ pc = "idle"
  /\ \E id \in DOMAIN messages, address \in AccountAddresses,
        walletClient \in WagmiWalletClients, chainId \in ChainIds :
       /\ ConfirmButton(messages[id])
       /\ LET started == SetMessage(id, [pending |-> TRUE, status |-> "activating"])
          IN IF walletClient = NoWallet
             THEN /\ messages' = ConfirmFailed(id, started)
                  /\ UNCHANGED <<svcVars, hc>>
             ELSE /\ messages' = started
                  /\ hc' = [pc |-> "setup", id |-> id, address |-> address,
                            chainId |-> chainId]
                  /\ BeginSetup("chatbox", messages[id].automation, walletClient,
                                address, chainId)
  /\ UNCHANGED <<automations, nextId, request, response, activatedBy, storeCall,
                 isEnabled, tracked, automationEvents>>

\* a request body that sends the whole result as the signed delegation
ConfirmBody_wholeResult(id, address, r) ==
  LET opt(f, k) == IF Has(r, f) THEN [x \in {k} |-> r[f]] ELSE <<>>
  IN [automationId |-> id, userAddress |-> address, signedDelegation |-> r]
     @@ opt("transactionHash", "transactionHash")
     @@ opt("chainId", "chainId")
     @@ opt("isSimulated", "isSimulated")

\* JSON.stringify of the request body, ChatBox.tsx:217-224: undefined
\* members are dropped
ConfirmBody(id, address, r) ==
  LET opt(f, k) == IF Has(r, f) THEN [x \in {k} |-> r[f]] ELSE <<>>
  IN [automationId |-> id, userAddress |-> address]
     @@ opt("delegation", "signedDelegation")
     @@ opt("transactionHash", "transactionHash")
     @@ opt("chainId", "chainId")
     @@ opt("isSimulated", "isSimulated")

\* `delegationResult.isSimulated` used as a condition
Simulated(r) == Has(r, "isSimulated") /\ r.isSimulated

\* setupAutomationDelegation has returned: ChatBox.tsx:177-225
ConfirmAfterSetup ==
  /\ hc.pc = "setup"
  /\ pc = "done"
  /\ caller = "chatbox"
  /\ messages' = IF result.success
                 THEN SetMessage(hc.id,
                        [pending |-> FALSE, requiresConfirmation |-> FALSE,
                         status |-> IF Simulated(result) THEN "simulated" ELSE "active"])
                 ELSE messages
  /\ request' = ConfirmBody(hc.id, hc.address, result)
  /\ hc' = [hc EXCEPT !.pc = "posting"] @@ [delegationResult |-> result]
  /\ ForgetCall
  /\ UNCHANGED <<automations, nextId, response, activatedBy, storeCall,
                 isEnabled, tracked, automationEvents>>

\* the server has answered: ChatBox.tsx:227-295
ConfirmResponse ==
  /\ hc.pc = "posting"
  /\ response # NoResult
  /\ messages' = IF Has(response, "success") /\ response.success
                 THEN SetMessage(hc.id,
                        [pending |-> FALSE, requiresConfirmation |-> FALSE,
                         status |-> "active"])
                 ELSE ConfirmFailed(hc.id, messages)
  /\ hc' = IdleConfirm
  /\ request' = NoResult
  /\ response' = NoResult
  /\ tracked' = NoTracking
  /\ UNCHANGED <<svcVars, automations, nextId, activatedBy, storeCall, isEnabled, automationEvents>>

(* ------------------------- direct use of the store -------------------- *)
\* the arguments the store is called with
StoreIds == 1..MaxStored
StoreStatuses == {"failed"}
\* Partial<Automation>: the fields the confirm route writes, or a new id
StoreUpdates ==
  {[status |-> "active", nextExecution |-> "computed"], [id |-> 1]}

\* the record of a call; `times` tells a call from the same call repeated
Called(op, id, a, returned) ==
  LET same == /\ storeCall.op = op
              /\ storeCall.id = id
              /\ storeCall.a = a
  IN [op |-> op, id |-> id, a |-> a, before |-> automations,
      returned |-> returned, times |-> IF same THEN 2 ELSE 1]

\* automationStorage.create, with the identifier the clock and Math.random() give
StoreCreate ==
  /\ nextId < MaxStored
  /\ \E user \in GoodAddresses :
       LET id == nextId + 1
           automation == [type |-> "recurring_payment", status |-> "pending",
                          params |-> [frequency |-> "weekly", recipient |-> "0xB",
                                      amount |-> "0.1"],
                          userAddress |-> user]
           after == StorageCreate(automations, automation, id)
       IN /\ automations' = after
          /\ nextId' = id
          /\ storeCall' = [op |-> "create", id |-> id, a |-> user,
                           before |-> automations, returned |-> after[Len(after)],
                           times |-> 1]
  /\ UNCHANGED <<svcVars, messages, hc, request, response, activatedBy,
                 isEnabled, tracked, automationEvents>>

\* automationStorage.update(id, updates)
StoreUpdate ==
  /\ \E id \in StoreIds, updates \in StoreUpdates :
       LET after == StorageUpdate(automations, id, updates)
       IN /\ automations' = after
          /\ storeCall' = Called("update", id, updates,
                                 UpdateReturns(automations, after, id))
  /\ UNCHANGED <<svcVars, nextId, messages, hc, request, response, activatedBy,
                 isEnabled, tracked, automationEvents>>

\* automationStorage.updateStatus(id, status)
StoreUpdateStatus ==
  /\ \E id \in StoreIds, status \in StoreStatuses :
       LET after == StorageUpdateStatus(automations, id, status)
       IN /\ automations' = after
          /\ storeCall' = Called("updateStatus", id, status,
                                 UpdateReturns(automations, after, id))
  /\ UNCHANGED <<svcVars, nextId, messages, hc, request, response, activatedBy,
                 isEnabled, tracked, automationEvents>>

\* automationStorage.delete(id, userAddress)
StoreDelete ==
  /\ \E id \in StoreIds, userAddress \in GoodAddresses :
       /\ automations' = StorageDelete(automations, id, userAddress)
       /\ storeCall' = Called("delete", id, userAddress,
                              DeleteIndex(automations, id, userAddress) # 0)
  /\ UNCHANGED <<svcVars, nextId, messages, hc, request, response, activatedBy,
                 isEnabled, tracked, automationEvents>>

(* ----------------------------- event store --------------------------- *)
\* eventStorage.create, automation.ts:156-165; the timestamp is the clock
EventCreate(store, event, id, now) ==
  Append(store, [id |-> id, timestamp |-> now] @@ event)

\* Array.prototype.sort by descending timestamp (stable for equal ones)
RECURSIVE NewestFirst(_)
NewestFirst(events) ==
  IF events = <<>> THEN <<>>
  ELSE LET newest == CHOOSE i \in 1..Len(events) :
                       /\ \A j \in 1..Len(events) : events[j].timestamp <= events[i].timestamp
                       /\ \A j \in 1..(i - 1) : events[j].timestamp < events[i].timestamp
           rest == SubSeq(events, 1, newest - 1) \o SubSeq(events, newest + 1, Len(events))
       IN <<events[newest]>> \o NewestFirst(rest)

\* eventStorage.getByUser without a limit, automation.ts:168-177
EventsByUser(store, userAddress) ==
  NewestFirst(SelectSeq(store, LAMBDA event : event.userAddress = userAddress))

\* eventStorage.getByChain without a limit, as the events route calls it
\* (automation.ts:190-199, part_002:115): the user is not looked at
EventsByChain(store, chainId, userAddress) ==
  NewestFirst(SelectSeq(store, LAMBDA event :
                  Has(event, "chainId") /\ event.chainId = chainId))

(* ------------------------- GET /api/events ---------------------------- *)
\* query parameters are strings; searchParams.get gives null for a missing one
NoParam == "absent"
EventChains == {1, 10143}
ChainParams == {"1", "10143"}

\* parseInt on the chainId parameter, part_002:115
parseInt(s) == CASE s = "1" -> 1 [] s = "10143" -> 10143

\* part_002:103-133
EventsGET(store, userAddress, chainId) ==
  IF userAddress = NoParam \/ userAddress = NoAddress
  THEN [status |-> 400]
  ELSE [status  |-> 200,
        success |-> TRUE,
        events  |-> IF chainId # NoParam
                    THEN EventsByChain(store, parseInt(chainId), userAddress)
                    ELSE EventsByUser(store, userAddress)]

\* any caller of the exported eventStorage records an event
RecordEvent ==
  /\ Len(automationEvents) < MaxEvents
  /\ \E user \in GoodAddresses, chain \in EventChains, hasChain \in BOOLEAN,
        now \in {Len(automationEvents), Len(automationEvents) + 1} :
       LET event == [automationId |-> 1, userAddress |-> user, eventType |-> "created"]
                      @@ (IF hasChain THEN [chainId |-> chain] ELSE <<>>)
       IN automationEvents' = EventCreate(automationEvents, event,
                                          Len(automationEvents) + 1, now)
  /\ UNCHANGED <<svcVars, automations, nextId, messages, hc, request, response,
                 activatedBy, storeCall, isEnabled, tracked>>

\* a client asks for events; the answer is what it receives
QueryEvents ==
  /\ \E userAddress \in GoodAddresses \cup {NoParam},
        chainId \in ChainParams \cup {NoParam} :
       /\ request' = [route |-> "events", userAddress |-> userAddress,
                      chainId |-> chainId]
       /\ response' = EventsGET(automationEvents, userAddress, chainId)
  /\ UNCHANGED <<svcVars, automations, nextId, messages, hc, activatedBy,
                 storeCall, isEnabled, tracked, automationEvents>>

(* ------------------ direct use of the two routes ---------------------- *)
\* a chat message, as far as parseUserCommand looks at it: what it asks for
\* and the one frequency phrase it contains, if any
CommandVerbs == {"send", "claim reward", "stake"}
FrequencyWords == {"daily", "weekly", "monthly", "every day", "every week", "every month"}
NoWord == "none"

IncludesEvery(word) == word \in {"every day", "every week", "every month"}

\* parse/route.ts:148-190 for a message with an amount and a recipient;
\* Null when the message is left to the AI parser
parseUserCommand(verb, word) ==
  IF verb = "send" /\ (IncludesEvery(word) \/ word \in {"weekly", "monthly"})
  THEN [type   |-> "recurring_payment",
        params |-> [amount |-> "0.1", recipient |-> "0xB",
                    frequency |-> IF word # NoWord THEN word ELSE "weekly"]]
  ELSE IF verb = "claim reward"
  THEN [type   |-> "reward_claim",
        params |-> [frequency |-> IF word = "daily" THEN "daily" ELSE "weekly"]]
  ELSE IF verb = "stake" /\ IncludesEvery(word)
  THEN [type   |-> "staking",
        params |-> [frequency |-> IF word = "daily" THEN "daily" ELSE "weekly"]]
  ELSE Null

\* POST /api/ai/parse from any client, parse/route.ts:18-28
ParseCommand ==
  /\ nextId < MaxAutomations
  /\ \E user \in GoodAddresses, verb \in CommandVerbs,
        word \in FrequencyWords \cup {NoWord} :
       LET parsedCommand == parseUserCommand(verb, word)
       IN /\ parsedCommand # Null
          /\ automations' = StorageCreate(automations,
                              [type |-> parsedCommand.type, status |-> "pending",
                               params |-> parsedCommand.params, userAddress |-> user],
                              nextId + 1)
          /\ nextId' = nextId + 1
  /\ UNCHANGED <<svcVars, messages, hc, request, response, activatedBy, storeCall,
                 isEnabled, tracked, automationEvents>>

\* POST /api/automations/confirm from any client, with a simulated delegation
ApiConfirm ==
  /\ hc.pc = "idle"
  /\ request = NoResult
  /\ \E id \in 1..MaxAutomations, user \in GoodAddresses, salt \in Salts,
        rnd \in fallbackIds, tx \in mockTransactionHashes :
       request' = [automationId     |-> id,
                   userAddress      |-> user,
                   signedDelegation |->
                     createSimulatedDelegation(user, 10143, "unsupported_chain",
                                               salt, rnd).delegation,
                   transactionHash  |-> tx,
                   chainId          |-> 10143,
                   isSimulated      |-> TRUE]
  /\ UNCHANGED <<svcVars, automations, nextId, messages, hc, response, activatedBy,
                 storeCall, isEnabled, tracked, automationEvents>>

\* the client has read the answer
ApiConfirmDone ==
  /\ hc.pc = "idle"
  /\ response # NoResult
  /\ request' = NoResult
  /\ response' = NoResult
  /\ tracked' = NoTracking
  /\ UNCHANGED <<svcVars, automations, nextId, messages, hc, activatedBy,
                 storeCall, isEnabled, automationEvents>>

(* ------------------------- direct use of the service ------------------ *)
ApiAutomation(type) ==
  [id |-> 0, type |-> type, status |-> "pending", userAddress |-> "0xA",
   params |-> [frequency |-> "weekly", recipient |-> "0xB", amount |-> "0.1"]]

\* any caller of the exported DelegationService, with any arguments
ApiSetup ==
  /\ hc.pc = "idle"
  /\ \E type \in AutomationTypes, walletClient \in WalletHandles,
        userAddress \in Addresses, chainId \in ChainIds :
       BeginSetup("api", ApiAutomation(type), walletClient, userAddress, chainId)
  /\ UNCHANGED appVars

\* the caller has taken the result; nothing of the finished call is
\* reachable from a later one (the service object has no fields but the chain list)
ApiReturn ==
  /\ pc = "done"
  /\ caller = "api"
  /\ ForgetCall
  /\ UNCHANGED appVars

(* --------------------------- specification ---------------------------- *)
Init ==
  /\ pc = "idle"
  /\ caller = "api"
  /\ args = NoArgs
  /\ mainnetCode = FALSE
  /\ targetCode = FALSE
  /\ isSCW = FALSE
  /\ lookup = "none"
  /\ canSign = FALSE
  /\ emptyDelegation = NoDelegation
  /\ signPromise = "none"
  /\ timer = "none"
  /\ signingResult = NoResult
  /\ result = NoResult
  /\ path = "none"
  /\ calls = ZeroCalls
  /\ lastProbeSig = NoSignature
  /\ submitFault = FALSE
  /\ environment = "unknown"
  /\ automations = <<>>
  /\ nextId = 0
  /\ messages = <<>>
  /\ hc = IdleConfirm
  /\ request = NoResult
  /\ response = NoResult
  /\ activatedBy = <<>>
  /\ storeCall = NoStoreCall
  /\ isEnabled \in BOOLEAN
  /\ tracked = NoTracking
  /\ automationEvents = <<>>

\* the steps inside the service that need nothing from the wallet
ServiceStep ==
  \/ (ValidateInputs /\ UNCHANGED appVars)
  \/ (CheckChain /\ UNCHANGED appVars)
  \/ (CheckBytecode /\ UNCHANGED appVars)
  \/ (StartProbe /\ UNCHANGED appVars)
  \/ (StartRealDelegation /\ UNCHANGED appVars)
  \/ (SigningTimesOut /\ UNCHANGED appVars)
  \/ (AfterSigning /\ UNCHANGED appVars)

\* the wallet settles a signature request, if it ever does
WalletStep ==
  \/ (ProbeResolves /\ UNCHANGED appVars)
  \/ (ProbeRejects /\ UNCHANGED appVars)
  \/ (SignResolves /\ UNCHANGED appVars)
  \/ (SignRejects /\ UNCHANGED appVars)

LateStep ==
  \/ (LateTimer /\ UNCHANGED appVars)
  \/ (LateSignature /\ UNCHANGED appVars)

\* the application: the chat UI, the two routes and the service it drives
Next ==
  \/ CreateAutomation
  \/ StartConfirm
  \/ ServiceStep
  \/ WalletStep
  \/ LateStep
  \/ ConfirmAfterSetup
  \/ ConfirmPOST
  \/ ConfirmResponse

Spec == Init /\ [][Next]_vars

\* the parse route and the confirm route called directly
ScheduleNext ==
  \/ ParseCommand
  \/ ApiConfirm
  \/ ConfirmPOST
  \/ ApiConfirmDone

ScheduleSpec == Init /\ [][ScheduleNext]_vars

\* the event store and the events route called directly
EventsNext ==
  \/ RecordEvent
  \/ QueryEvents

EventsSpec == Init /\ [][EventsNext]_vars

\* the event loop runs every continuation that is ready, timers fire and
\* the server answers; nothing obliges the wallet to answer
FairSpec ==
  /\ Spec
  /\ WF_vars(ServiceStep)
  /\ WF_vars(ConfirmAfterSetup)
  /\ WF_vars(ConfirmPOST)
  /\ WF_vars(ConfirmResponse)

\* the exported DelegationService called directly, with any arguments
ServiceNext ==
  \/ ApiSetup
  \/ ServiceStep
  \/ WalletStep
  \/ LateStep
  \/ ApiReturn

ServiceSpec == Init /\ [][ServiceNext]_vars

\* the exported automationStorage called directly, with any arguments
StoreNext ==
  \/ StoreCreate
  \/ StoreUpdate
  \/ StoreUpdateStatus
  \/ StoreDelete

StoreSpec == Init /\ [][StoreNext]_vars

\* the event loop runs every continuation that is ready and every timer
\* fires; nothing obliges the wallet to answer
FairServiceSpec == ServiceSpec /\ WF_vars(ServiceStep) /\ WF_vars(ApiReturn)

(* ============================== claims ================================ *)
\* setupAutomationDelegation has returned `result` for the call `args`
Returned == pc = "done"

\* the call was made with a user address and a wallet handle
ProperCall == WellFormed(args.userAddress) /\ args.walletClient # NoWallet

\* C1: every call with a (well-formed) user address and a wallet handle on a
\* chain id outside the supported-chain list returns success = true and
\* isSimulated = true, whatever the wallet is.
C1_UnsupportedChainIsSimulated ==
  (Returned /\ ProperCall /\ args.chainId \notin supportedChains)
    => /\ result.success
       /\ Has(result, "isSimulated")
       /\ result.isSimulated = TRUE

C1_Witness ==
  /\ Returned
  /\ ProperCall
  /\ args.chainId = 10143
  /\ args.walletClient = "withAccount"
  /\ result.success

\* C2 (as claimed): whenever the signing stage fell back to simulation, the
\* final result of a call with a user address has isSimulated = true, on
\* supported and unsupported chains alike.
C2_SimulatedStaysSimulated ==
  (Returned /\ ProperCall /\ IsResult(signingResult) /\ Simulated(signingResult))
    => Simulated(result)

\* the signing request was sent and failed: it rejected, or the timer won
SigningFailed == calls.sign = 1 /\ path = "error_fallback"

\* C3: when signDelegation throws or the 30 s timer fires first, a call with
\* a user address still returns success = true, and that result comes from
\* the simulation fallback.
C3_SigningFaultAbsorbed ==
  (Returned /\ ProperCall /\ SigningFailed)
    => /\ result.success
       /\ Simulated(signingResult)
       /\ calls.simulate = 1
       /\ result.delegation = signingResult.delegation

C3_Witness ==
  /\ Returned
  /\ ProperCall
  /\ SigningFailed
  /\ timer = "fired"
  /\ signPromise = "pending"

\* C4: every stored automation with status 'active' was activated by a
\* confirm request that carried the delegation of a DelegationResult with
\* success = true; a failed setup never makes a stored automation active.
C4_ActiveOnlyAfterSuccess ==
  \A i \in 1..Len(automations) :
    automations[i].status = "active"
      => /\ automations[i].id \in DOMAIN activatedBy
         /\ activatedBy[automations[i].id].success
         /\ automations[i].delegationData = activatedBy[automations[i].id].delegation

\* a failed setup was sent to the server and the automation is still pending
C4_Witness ==
  /\ hc.pc = "posting"
  /\ ~hc.delegationResult.success
  /\ response # NoResult
  /\ \E i \in 1..Len(automations) :
       automations[i].id = hc.id /\ automations[i].status = "pending"

\* C5: with a missing userAddress or wallet handle the call returns
\* success = false at once: no chain or wallet check, no signature request,
\* no simulation and no submission has been made.
C5_MissingInputsFailFast ==
  (pc \notin {"idle", "validate"} /\ (args.userAddress = NoAddress \/ args.walletClient = NoWallet))
    => /\ pc = "done"
       /\ ~result.success
       /\ calls = ZeroCalls
       /\ signingResult = NoResult
       /\ signPromise = "none"
       /\ timer = "none"

C5_Witness ==
  /\ Returned
  /\ args.userAddress # NoAddress
  /\ args.walletClient = NoWallet
  /\ ~result.success

\* C6 (as claimed): every call of setupAutomationDelegation eventually
\* returns, even when the wallet never answers a signature request.
C6_EveryCallReturns == (pc = "validate") ~> (pc = "done")

\* C7: success = false is returned only for a missing user address or wallet
\* handle or for a fault inside submitDelegation; a failed bytecode lookup, a
\* refused probe, a missing or throwing SDK environment and a failed signing
\* all end in the simulation path and, unless submitDelegation faults, in
\* success = true.
C7_FailureOnlyFromInputsOrSubmit ==
  Returned =>
    /\ ~result.success =>
         \/ args.userAddress = NoAddress
         \/ args.walletClient = NoWallet
         \/ submitFault
    /\ (path \in {"error_fallback", "no_delegation_manager", "signing_unsupported"}
        /\ ~submitFault)
         => (result.success /\ Simulated(signingResult))

\* submitDelegation faulted on the delegation the signing stage handed over
C7_Witness ==
  /\ Returned
  /\ ~result.success
  /\ submitFault
  /\ args.userAddress # NoAddress
  /\ args.walletClient # NoWallet

\* C8: on a supported chain with a DelegationManager, for a wallet classified
\* externally-owned that passed the probe and whose signDelegation call won
\* the race, the result has success = true and isSimulated = false and its
\* delegation carries signDelegation's signature, not the probe's.
C8_RealDelegationIsReal ==
  (/\ Returned
   /\ ProperCall
   /\ args.chainId \in supportedChains
   /\ environment = "manager"
   /\ ~isSCW
   /\ canSign
   /\ signPromise = "resolved"
   /\ path # "error_fallback")
    => /\ result.success
       /\ Has(result, "isSimulated")
       /\ result.isSimulated = FALSE
       /\ result.delegation.signature = RealSignature
       /\ result.delegation.signature # lastProbeSig
       /\ lastProbeSig = ProbeSignature

C8_Witness ==
  /\ Returned
  /\ path = "real"
  /\ args.chainId = 11155111
  /\ lastProbeSig = ProbeSignature
  /\ result.success

\* a caveat that restricts the target to `recipient` and caps the native
\* token amount at `amount`
PaymentCaveat(c, recipient, amount) ==
  /\ Has(c, "target")
  /\ c.target = recipient
  /\ c.maxAmount = amount

\* C9 (as claimed): the delegation returned for a recurring_payment intent
\* with recipient R and amount A carries a caveat restricting the target to
\* R and capping the amount at A; its caveat list is never empty.
C9_PaymentCaveats ==
  (Returned /\ ProperCall /\ result.success
   /\ args.automation.type = "recurring_payment")
    => /\ result.delegation.caveats # <<>>
       /\ \E k \in DOMAIN result.delegation.caveats :
            PaymentCaveat(result.delegation.caveats[k],
                          args.automation.params.recipient,
                          args.automation.params.amount)

\* C10 (as claimed): a successful result carries the walletType and the
\* userMessage the signing stage chose for the path taken.
C10_ResultCarriesClassification ==
  (Returned /\ ProperCall /\ result.success)
    => /\ Has(result, "walletType")
       /\ result.walletType = signingResult.walletType
       /\ Has(result, "userMessage")
       /\ result.userMessage = signingResult.userMessage

\* C11: every result with success = true carries a delegation, a delegation
\* identifier and a transaction reference, on supported and unsupported
\* chains alike.
C11_SuccessCarriesReferences ==
  (Returned /\ result.success)
    => /\ Has(result, "delegation")
       /\ Has(result.delegation, "delegate")
       /\ Has(result, "delegationId")
       /\ result.delegationId = getDelegationHashOffchain(result.delegation)
       /\ Has(result, "transactionHash")
       /\ result.transactionHash \in mockTransactionHashes

C11_Witness ==
  /\ Returned
  /\ result.success
  /\ args.chainId = 1
  /\ path = "smart_contract_wallet"
  /\ Has(result, "transactionHash")

\* the simulation path has produced the signing stage's result
SimulationProduced == calls.simulate = 1 /\ signingResult # NoResult

\* a delegation with the placeholder signature, reported under its own hash
PlaceholderSignedAndHashed(r) ==
  /\ Has(r, "delegation")
  /\ Has(r.delegation, "signature")
  /\ r.delegation.signature = PlaceholderSignature
  /\ r.delegationId = getDelegationHashOffchain(r.delegation)

SameField(auto, r, f) == Has(auto, f) /\ Has(r, f) /\ auto[f] = r[f]

\* C13: after a confirmation driven by handleConfirmAutomation succeeded,
\* the stored automation's delegationId, transactionHash, chainId and
\* isSimulated equal those of the DelegationResult returned by
\* setupAutomationDelegation, and the status GET reports onChainActive = true.
C13_StoredMatchesResult ==
  \A i \in 1..Len(automations) :
    LET auto == automations[i]
    IN (auto.id \in DOMAIN activatedBy /\ auto.status = "active")
         => /\ SameField(auto, activatedBy[auto.id], "delegationId")
            /\ SameField(auto, activatedBy[auto.id], "transactionHash")
            /\ SameField(auto, activatedBy[auto.id], "chainId")
            /\ SameField(auto, activatedBy[auto.id], "isSimulated")
            /\ StatusGET(automations, auto.id, auto.userAddress).onChainActive

\* the last store call was update or updateStatus with an id no stored
\* automation had
UnknownIdUpdate ==
  /\ storeCall.op \in {"update", "updateStatus"}
  /\ \A i \in 1..Len(storeCall.before) : storeCall.before[i].id # storeCall.id

\* C14: update and updateStatus called with an id that no stored automation
\* has return null and leave every stored automation unchanged, the first
\* time and when the call is repeated.
C14_UnknownIdUpdateIsNoOp ==
  UnknownIdUpdate
    => /\ storeCall.returned = Null
       /\ automations = storeCall.before

C14_Witness ==
  /\ UnknownIdUpdate
  /\ storeCall.op = "update"
  /\ storeCall.times = 2
  /\ Len(storeCall.before) = 1
  /\ storeCall.returned = Null

\* the positions of the automations a delete call was entitled to remove
OwnedMatches ==
  {i \in 1..Len(storeCall.before) :
     /\ storeCall.before[i].id = storeCall.id
     /\ storeCall.before[i].userAddress = storeCall.a}

\* C15: delete(id, userAddress) removes an automation only when a stored
\* automation has that id and that owner, removes exactly that one and
\* returns true; otherwise it returns false and the store is unchanged.
C15_DeleteScopedToOwner ==
  storeCall.op = "delete"
    => IF OwnedMatches = {}
       THEN /\ storeCall.returned = FALSE
            /\ automations = storeCall.before
       ELSE /\ storeCall.returned = TRUE
            /\ Len(automations) = Len(storeCall.before) - 1
            /\ \E i \in OwnedMatches :
                 /\ \A j \in 1..(i - 1) : automations[j] = storeCall.before[j]
                 /\ \A j \in i..Len(automations) :
                      automations[j] = storeCall.before[j + 1]

\* one of two stored automations is deleted by its owner, the other user's stays
C15_Witness ==
  /\ storeCall.op = "delete"
  /\ storeCall.returned = TRUE
  /\ Len(storeCall.before) = 2
  /\ Len(automations) = 1
  /\ automations[1].userAddress # storeCall.a

\* C16: once the store update of a confirm POST has succeeded, the request
\* answers success: true whether the tracking calls succeed, are disabled or
\* fail.
C16_TrackingNeverFailsConfirm ==
  tracked # NoTracking
    => /\ \E i \in 1..Len(automations) :
            automations[i].id = request.automationId /\ automations[i].status = "active"
       /\ response.status = 200
       /\ Has(response, "success")
       /\ response.success

\* tracking is configured and the tracking of the automation has failed
C16_Witness ==
  /\ tracked # NoTracking
  /\ isEnabled
  /\ tracked.automation = [returned |-> FALSE]
  /\ tracked.transaction = [returned |-> TRUE]
  /\ response = [status |-> 200, success |-> TRUE]

\* C17: the checks of createSignedDelegation run in the order chain support,
\* smart-contract detection, signing probe, and short-circuit: on an
\* unsupported chain neither the bytecode lookup nor the signing probe is
\* performed, and for a wallet classified smart-contract the signing probe
\* is not performed.
C17_ChecksShortCircuit ==
  /\ calls.bytecode > 0 => args.chainId \in supportedChains
  /\ calls.probe > 0 => calls.bytecode > 0
  /\ (pc # "idle" /\ args.chainId \notin supportedChains)
       => (calls.bytecode = 0 /\ calls.probe = 0)
  /\ isSCW => calls.probe = 0

\* C18: signDelegation is invoked only when the chain id is in the supported
\* list, the wallet was classified not smart-contract, and the signing probe
\* succeeded.
C18_SignOnlyWhenAllChecksPass ==
  calls.sign > 0
    => /\ args.chainId \in supportedChains
       /\ calls.bytecode = 1
       /\ ~isSCW
       /\ calls.probe = 1
       /\ canSign
       /\ lastProbeSig = ProbeSignature

C18_Witness ==
  /\ pc = "signWait"
  /\ calls.sign = 1
  /\ signPromise = "pending"
  /\ canSign
  /\ ~isSCW

\* C19: within one setupAutomationDelegation call signDelegation is invoked
\* at most once and createSimulatedDelegation is executed at most once; a
\* failed or timed-out signing is never retried.
C19_NoRetry ==
  /\ calls.sign <= 1
  /\ calls.simulate <= 1
  /\ (calls.sign = 1 /\ calls.simulate = 1) => pc \in {"signed", "done"}

\* the signing timed out and the call went on with the one simulation
C19_Witness ==
  /\ Returned
  /\ timer = "fired"
  /\ path = "error_fallback"
  /\ calls.sign = 1
  /\ calls.simulate = 1

\* C20: submitDelegation is invoked at most once per call and only after
\* createSignedDelegation has returned success = true with a delegation;
\* when the signing stage returns success = false, its result is returned
\* as is and submitDelegation is not invoked.
C20_SubmitOnceAfterSigning ==
  /\ calls.submit <= 1
  /\ calls.submit = 1
       => /\ Returned
          /\ signingResult.success
          /\ Has(signingResult, "delegation")
  /\ (Returned /\ IsResult(signingResult) /\ ~signingResult.success)
       => (result = signingResult /\ calls.submit = 0)

\* a submission that failed, made once
C20_Witness ==
  /\ Returned
  /\ calls.submit = 1
  /\ submitFault
  /\ signingResult.success
  /\ ~result.success

\* C21: the smart-contract-wallet classification createSignedDelegation uses
\* for chain id C reflects the bytecode of userAddress on chain C: once the
\* bytecode lookup has answered, the wallet is classified smart-contract
\* exactly when the address has non-empty code on the target chain.
C21_ClassificationFollowsTargetChain ==
  lookup = "answered" => (isSCW <=> targetCode)

\* the signing stage is over and its probe had failed (a wallet without an
\* account, or a wallet that refused the probe)
ProbeFailed ==
  /\ pc \in {"signed", "done"}
  /\ calls.bytecode = 1
  /\ ~canSign

\* what the caller gets when one of the two advisory checks failed
AdvisoryFailureAbsorbed ==
  (Returned /\ ProperCall /\ (lookup = "failed" \/ ProbeFailed))
    => result.success

BuiltIncomplete ==
  /\ emptyDelegation # NoDelegation
  /\ (emptyDelegation.delegate = NoAddress \/ emptyDelegation.authority = "")

\* C23: if the delegation being built lacks its delegate or its authority
\* address, the build step returns an error: nothing is signed, nothing is
\* returned with success = true and nothing is submitted.
C23_BuildFailsClosed ==
  BuiltIncomplete
    => /\ calls.sign = 0
       /\ calls.submit = 0
       /\ signingResult # NoResult => ~signingResult.success
       /\ Returned => (~result.success /\ Has(result, "error"))

\* a handleConfirmAutomation run is between its first line and its last
RunInProgress == hc.pc # "idle"

\* C24: while a confirmation of an automation is in progress, the UI offers
\* no way to start a second confirmation of the same automation: the confirm
\* button of its message is not rendered until the run has finished.
C24_NoSecondConfirmWhileRunning ==
  RunInProgress
    => /\ hc.id \in DOMAIN messages
       /\ ~ConfirmButton(messages[hc.id])

\* the setup succeeded and cleared `pending` while the POST is in flight
C24_Witness ==
  /\ hc.pc = "posting"
  /\ response = NoResult
  /\ ~messages[hc.id].pending
  /\ ~ConfirmButton(messages[hc.id])

\* the loser of the race between signature and timeout settles
LateSettle ==
  /\ pc # "signWait"
  /\ \/ (timer = "armed" /\ timer' = "fired")
     \/ (signPromise = "pending" /\ signPromise' \in {"resolved", "rejected"})

\* C25: the outcome of createRealDelegation is decided by whichever of the
\* signature and the 30-second timeout settles first: the one that settles
\* later changes neither the result of the signing stage nor the result of
\* the call, and starts no further stage.
C25_FirstSettlerDecides ==
  [][LateSettle => UNCHANGED <<pc, signingResult, result, path, calls>>]_vars

\* the timeout decided, the signature arrived later, the result is simulated
C25_Witness ==
  /\ pc \in {"signed", "done"}
  /\ timer = "fired"
  /\ signPromise = "resolved"
  /\ path = "error_fallback"
  /\ signingResult.isSimulated
  /\ calls.simulate = 1

\* the confirm route answers the request in flight
Answered(status) ==
  /\ request # NoResult
  /\ response = NoResult
  /\ response' # NoResult
  /\ response'.status = status

\* the request names an automation its userAddress does not own
NotOwner ==
  /\ ~MissingFields(request)
  /\ ~\E i \in 1..Len(automations) :
         /\ automations[i].id = request.automationId
         /\ automations[i].userAddress = request.userAddress

\* C26: a confirm POST that answers with an error (400, 404 or 500) leaves
\* every stored automation unchanged; a request whose userAddress does not
\* own automationId gets 404 and activates nothing.
C26_ErrorAnswerLeavesStore ==
  [][ /\ (Answered(400) \/ Answered(404) \/ Answered(500))
           => (automations' = automations /\ activatedBy' = activatedBy)
      /\ (request # NoResult /\ response = NoResult /\ response' # NoResult /\ NotOwner)
           => Answered(404)
    ]_vars

\* a user asked to confirm another user's pending automation and got 404
C26_Witness ==
  /\ response # NoResult
  /\ response.status = 404
  /\ \E i \in 1..Len(automations) :
       /\ automations[i].id = request.automationId
       /\ automations[i].userAddress # request.userAddress
       /\ automations[i].status = "pending"

\* the automation of message id is active in the server's store
ServerConfirmed(id) ==
  \E i \in 1..Len(automations) :
    automations[i].id = id /\ automations[i].status = "active"

\* with no run in progress, every message is settled: not pending, shown as
\* 'active' only when the server confirmed, 'pending' otherwise
RunsEndSettled ==
  hc.pc = "idle"
    => \A id \in DOMAIN messages :
         /\ ~messages[id].pending
         /\ messages[id].status \in {"active", "pending"}
         /\ messages[id].status = "active" => ServerConfirmed(id)

\* C27: every run of handleConfirmAutomation ends, with the automation's
\* chat message no longer pending and its displayed status either 'active'
\* (the server confirmed) or 'pending' (any failure); the status never stays
\* 'activating' or 'simulated'.
C27_EveryRunEndsSettled ==
  /\ []RunsEndSettled
  /\ RunInProgress ~> (hc.pc = "idle")

\* C28: after any sequence of create, update, updateStatus and delete calls
\* on automationStorage, no two stored automations share the same id.
C28_IdsAreUnique ==
  \A i, j \in 1..Len(automations) :
    automations[i].id = automations[j].id => i = j

\* the period a frequency value names
PeriodNamed(frequency) ==
  CASE frequency \in {"daily", "every day"}     -> Later(1, 0)
    [] frequency \in {"weekly", "every week"}   -> Later(7, 0)
    [] frequency \in {"monthly", "every month"} -> Later(0, 1)

\* C29: for every frequency value the command parser can store (daily,
\* weekly, monthly, every day, every week, every month), the nextExecution
\* set at confirmation lies one day, one week or one month after the
\* confirmation time, matching the period the frequency names.
C29_NextExecutionMatchesFrequency ==
  \A i \in 1..Len(automations) :
    (automations[i].status = "active" /\ automations[i].params.frequency \in FrequencyWords)
      => automations[i].nextExecution = PeriodNamed(automations[i].params.frequency)

\* C30: GET /api/events called with userAddress U, with or without a
\* chainId, returns only events whose userAddress is U.
C30_EventsOnlyOfRequestingUser ==
  (Has(request, "route") /\ Has(response, "events"))
    => \A i \in 1..Len(response.events) :
         response.events[i].userAddress = request.userAddress
====
